---- MODULE Spec2Model ----
(***************************************************************************)
(* Model of the pipeline editor view (PipelineView.js): the steps of the   *)
(* pipeline with their incoming_connections, the list of drawn connection  *)
(* objects (this.connections), the connection being dragged                *)
(* (this.newConnection), the selected connection and the selected steps,   *)
(* and the event handlers that edit them; and the saving of the pipeline:   *)
(* the document that encodeJSON makes of the steps, its validation, the    *)
(* save requests in flight and the continuations that wait for them.       *)
(*                                                                         *)
(* A step uuid is modelled by the number of its insertion into             *)
(* this.state.steps, so that the enumeration order of the object's keys    *)
(* (insertion order) is the ascending order of the uuids.  Every handler   *)
(* runs to completion (single-threaded event loop); a handler that throws  *)
(* stops where it throws and keeps the assignments it made before.         *)
(***************************************************************************)
EXTENDS Integers, Sequences, FiniteSets, Bags, TLC

VARIABLES
  steps,               \* this.state.steps: uuid -> step
  initializedPipeline, \* this.initializedPipeline
  uuidCount,           \* number of uuids handed out so far
  connections,         \* this.connections: list of connection objects
  newConnection,       \* this.newConnection: reference to a connection object
  selectedConnection,  \* this.selectedConnection: reference to a connection object
  openedStep,          \* this.state.openedStep
  selectedSteps,       \* this.state.selectedSteps
  mouseDown,           \* the mouse button is held since a mousedown on an outgoing dot
  selectedItem,        \* this.selectedItem: the step the mouse button is held on
  unsavedChanges,      \* this.state.unsavedChanges
  saveRequests,        \* the save requests in flight: document and continuation
  continued,           \* number of continuations of saveBeforeAction that have run
  readOnly,            \* this.props.readOnly
  selectTimers,        \* the calls deferred by setTimeout, oldest first: a uuid for
                       \* selectStep(uuid), Undefined for the reset of this.selectedItem
  uncaught,            \* number of handlers that ended in an uncaught exception
  pipelineRunning,     \* this.state.pipelineRunning
  waitingOnCancel,     \* this.state.waitingOnCancel
  runUUID,             \* this.state.runUUID
  backendRunning,      \* this.state.backend.running: the session is running
  pipelineStepStatusPollingInterval, \* this.pipelineStepStatusPollingInterval
  intervals,           \* the interval timers that are active
  runs,                \* the backend: run uuid -> status of the run
  responses,           \* the responses in flight to the view, a bag
  mounted,             \* componentWillUnmount has not run
  handled,             \* the response that the last response handler got
  last                 \* the operation on the steps that the last handler ran
                       \* ("other" when it ran none), its arguments and outcome

vars == <<steps, initializedPipeline, uuidCount, connections, newConnection,
          selectedConnection, openedStep, selectedSteps, mouseDown, selectedItem,
          unsavedChanges, saveRequests, continued, readOnly, selectTimers,
          uncaught,
          pipelineRunning,
          waitingOnCancel, runUUID, backendRunning,
          pipelineStepStatusPollingInterval, intervals, runs, responses,
          mounted, handled, last>>

\* The variables of the runs of the pipeline.
runVars == <<pipelineRunning, waitingOnCancel, runUUID, backendRunning,
             pipelineStepStatusPollingInterval, intervals, runs, responses,
             mounted, handled>>

\* Bounds of the model.
MaxSteps == 3          \* uuids handed out in one run
MaxConnections == 2    \* length of this.connections
MaxUncaught == 4       \* handlers that end in an uncaught exception in one run

\* JavaScript's undefined, where a uuid is expected.
Undefined == 0

UUIDs == 1..MaxSteps

\* A response in flight: to fetchActivePipelineRuns ("runs"), to the request
\* that starts a run ("run"), to a status poll ("poll") or to the request that
\* cancels a run ("cancel"); the run it is about and what it reports.
Response(type, run, result) == [type |-> type, run |-> run, result |-> result]

NoResponse == Response("none", Undefined, "none")

\* The constructor (lines 273-275, 280, 257, 317) when the backend has no run
\* of the pipeline: fetchActivePipelineRuns is on its way and will find none.
NoRun ==
  /\ pipelineRunning = FALSE
  /\ waitingOnCancel = FALSE
  /\ runUUID = Undefined
  /\ backendRunning = FALSE
  /\ pipelineStepStatusPollingInterval = Undefined
  /\ intervals = {}
  /\ runs = <<>>
  /\ responses = SetToBag({Response("runs", Undefined, "none")})
  /\ mounted = TRUE
  /\ handled = NoResponse

----------------------------------------------------------------------------
\* Arrays

\* Array.prototype.indexOf, 1-based; 0 stands for -1.
IndexOf(arr, x) ==
  IF \E i \in 1..Len(arr) : arr[i] = x
  THEN CHOOSE i \in 1..Len(arr) : arr[i] = x /\ \A j \in 1..(i - 1) : arr[j] # x
  ELSE 0

\* arr.splice(i, 1) for an index i of arr (1-based).
SpliceAt(arr, i) == [j \in 1..(Len(arr) - 1) |-> IF j < i THEN arr[j] ELSE arr[j + 1]]


\* The keys of an object whose keys are uuids, in enumeration order.
RECURSIVE KeysFrom(_, _)
KeysFrom(S, k) ==
  IF k > MaxSteps + 1 THEN <<>>
  ELSE IF k \in S THEN <<k>> \o KeysFrom(S, k + 1) ELSE KeysFrom(S, k + 1)

Keys(obj) == KeysFrom(DOMAIN obj, 1)

----------------------------------------------------------------------------
\* Steps

\* A file path: the name of the file and its extension; NoFile is the empty
\* path of a new step.
FilePath(name, extension) == [name |-> name, extension |-> extension]

NoFile == FilePath("", "")

\* The meta_data of a step: its position (the coordinates are not modelled)
\* and the runtime fields of the drag.
MetaData(drag_count, dragged) ==
  [key \in {"position", "_drag_count", "_dragged"} |->
     CASE key = "position" -> <<0, 0>>
       [] key = "_drag_count" -> drag_count
       [] key = "_dragged" -> dragged]

\* A step as newStep creates it, with the given incoming_connections: no
\* outgoing_connections field, no file, the runtime fields off.  The uuid of a
\* step is its key in steps; title, kernel, environment and parameters are not
\* modelled.
Step(incoming) ==
  [incoming_connections |-> incoming,
   outgoing_connections |-> <<>>,
   outgoing_defined |-> FALSE,
   file_path |-> NoFile,
   meta_data |-> MetaData(0, FALSE)]

\* delete obj[key]
DeleteKey(obj, key) == [k \in (DOMAIN obj) \ {key} |-> obj[k]]

\* obj[key] = value
SetKey(obj, key, value) ==
  [k \in (DOMAIN obj) \cup {key} |-> IF k = key THEN value ELSE obj[k]]

----------------------------------------------------------------------------
\* willCreateCycle and dfsWithSets

\* Lines 565-569: every step gets an empty outgoing_connections.
ResetOutgoing(st) ==
  [k \in DOMAIN st |->
     [st[k] EXCEPT !.outgoing_connections = <<>>, !.outgoing_defined = TRUE]]

\* Lines 571-581: for every step, in key order, and every entry of its
\* incoming_connections, in array order, push the step on the entry's
\* outgoing_connections. keys is the rest of the keys, x the index in the
\* incoming_connections of the first of them. The entry of a step that is not
\* in steps throws a TypeError: thrown is set and st is what was written so far.
RECURSIVE FillOutgoing(_, _, _)
FillOutgoing(st, keys, x) ==
  IF keys = <<>> THEN [steps |-> st, thrown |-> FALSE]
  ELSE LET step_uuid == Head(keys)
           incoming == st[step_uuid].incoming_connections
       IN IF x > Len(incoming) THEN FillOutgoing(st, Tail(keys), 1)
          ELSE IF incoming[x] \notin DOMAIN st THEN [steps |-> st, thrown |-> TRUE]
          ELSE FillOutgoing(
                 [st EXCEPT ![incoming[x]].outgoing_connections =
                                Append(@, step_uuid)],
                 keys, x + 1)

\* The first element left in a Set of uuids (insertion order).
FirstOf(S) == CHOOSE k \in S : \A j \in S : k <= j

\* dfsWithSets(step_uuid, whiteSet, greySet), from the x-th outgoing connection
\* on: the value returned (TRUE, or FALSE for undefined) and the two sets.
RECURSIVE dfsLoop(_, _, _, _, _)
dfsLoop(st, step_uuid, x, whiteSet, greySet) ==
  LET outgoing == st[step_uuid].outgoing_connections IN
  IF x > Len(outgoing)
  THEN [ret |-> FALSE, whiteSet |-> whiteSet, greySet |-> greySet \ {step_uuid}]
  ELSE LET child_uuid == outgoing[x] IN
       IF child_uuid \in whiteSet
       THEN LET r == dfsLoop(st, child_uuid, 1, whiteSet \ {child_uuid},
                             greySet \cup {child_uuid})
            IN IF r.ret THEN r
               ELSE dfsLoop(st, step_uuid, x + 1, r.whiteSet, r.greySet)
       ELSE IF child_uuid \in greySet
       THEN [ret |-> TRUE, whiteSet |-> whiteSet, greySet |-> greySet]
       ELSE dfsLoop(st, step_uuid, x + 1, whiteSet, greySet)

\* A dfsWithSets that leaves the step in greySet when it returns.
dfsWithSetsStaysGrey(st, step_uuid, whiteSet, greySet) ==
  LET r == dfsLoop(st, step_uuid, 1, whiteSet \ {step_uuid}, greySet \cup {step_uuid})
  IN [r EXCEPT !.greySet = @ \cup {step_uuid}]

\* dfsWithSets(step_uuid, whiteSet, greySet): lines 603-626.
dfsWithSets(st, step_uuid, whiteSet, greySet) ==
  dfsLoop(st, step_uuid, 1, whiteSet \ {step_uuid}, greySet \cup {step_uuid})

\* A cycle check that searches from the first step only.
WhileWhiteOnce(st, whiteSet, greySet, cycles) ==
  LET r == dfsWithSets(st, FirstOf(whiteSet), whiteSet, greySet)
  IN [cycles |-> r.ret, whiteSet |-> r.whiteSet, greySet |-> r.greySet]

\* Lines 588-595: the loop over the steps left in whiteSet.
RECURSIVE WhileWhite(_, _, _, _)
WhileWhite(st, whiteSet, greySet, cycles) ==
  IF whiteSet = {} THEN [cycles |-> cycles, whiteSet |-> whiteSet, greySet |-> greySet]
  ELSE LET r == dfsWithSets(st, FirstOf(whiteSet), whiteSet, greySet)
       IN WhileWhite(st, r.whiteSet, r.greySet, cycles \/ r.ret)

\* willCreateCycle(startNodeUUID, endNodeUUID) on the steps st: the steps it
\* leaves, whether it threw, and the value it returned when it did not.
willCreateCycle(st, startNodeUUID, endNodeUUID) ==
  LET pushed == [st EXCEPT ![endNodeUUID].incoming_connections =
                              Append(@, startNodeUUID)]
      insertIndex == Len(pushed[endNodeUUID].incoming_connections)
      filled == FillOutgoing(ResetOutgoing(pushed), Keys(pushed), 1)
  IN IF filled.thrown
     THEN [steps |-> filled.steps, thrown |-> TRUE, cycles |-> FALSE]
     ELSE LET w == WhileWhite(filled.steps, DOMAIN filled.steps, {}, FALSE)
          IN [steps |-> [filled.steps EXCEPT ![endNodeUUID].incoming_connections =
                                               SpliceAt(@, insertIndex)],
              thrown |-> FALSE,
              cycles |-> w.cycles]

----------------------------------------------------------------------------
\* Connection objects (ConnectionDOMWrapper) and references to them

\* The connection object created by mousedown on the outgoing dot of `startNode`;
\* endNodeUUID stays Undefined until setEndNode.
Connection(startNodeUUID, endNodeUUID) ==
  [startNodeUUID |-> startNodeUUID, endNodeUUID |-> endNodeUUID]

\* A reference held in this.newConnection or this.selectedConnection is
\* undefined, or the object at an index of this.connections, or an object that
\* is no longer in this.connections (indexOf gives -1 for it).
NoConnection ==
  [kind |-> "undefined", index |-> 0,
   startNodeUUID |-> Undefined, endNodeUUID |-> Undefined]

Listed(i) ==
  [kind |-> "listed", index |-> i,
   startNodeUUID |-> Undefined, endNodeUUID |-> Undefined]

Detached(c) ==
  [kind |-> "detached", index |-> 0,
   startNodeUUID |-> c.startNodeUUID, endNodeUUID |-> c.endNodeUUID]

\* The object a reference refers to.
Deref(conns, ref) == IF ref.kind = "listed" THEN conns[ref.index] ELSE Connection(ref.startNodeUUID, ref.endNodeUUID)

\* this.connections.indexOf(ref), 1-based; 0 stands for -1.
IndexOfRef(ref) == IF ref.kind = "listed" THEN ref.index ELSE 0

\* A reference after the object at index i has left this.connections.
AfterSplice(conns, ref, i) ==
  IF ref.kind # "listed" THEN ref
  ELSE IF ref.index = i THEN Detached(conns[i])
  ELSE IF ref.index > i THEN Listed(ref.index - 1)
  ELSE ref

\* getConnectionByUUIDs: the index of the first object with these uuids, 0 for
\* the undefined the function returns when there is none.
getConnectionByUUIDs(conns, startNodeUUID, endNodeUUID) ==
  IndexOf(conns, Connection(startNodeUUID, endNodeUUID))

----------------------------------------------------------------------------
\* The state a handler works on: the fields of the component it reads and
\* writes, whether it has thrown, and the alert it raised.

\* this.connections.splice(this.connections.indexOf(object), 1) for the object at
\* index i of this.connections, or for an object that is not in it (i = 0).
SpliceConnection(m, i) ==
  LET at == IF i # 0 THEN i ELSE Len(m.connections) IN
  IF at = 0 THEN m
  ELSE [m EXCEPT !.connections = SpliceAt(@, at),
                 !.newConnection = AfterSplice(m.connections, @, at),
                 !.selectedConnection = AfterSplice(m.connections, @, at)]

Throw(m) == [m EXCEPT !.thrown = TRUE]

\* createConnection(outgoingJEl) of a drag that starts: the object is pushed and
\* becomes this.newConnection.
createConnection(m, startNodeUUID) ==
  [m EXCEPT !.connections = Append(@, Connection(startNodeUUID, Undefined)),
            !.newConnection = Listed(Len(m.connections) + 1)]

\* A makeConnection that puts the source in front of the entries.
makeConnectionFirst(m, source, target) ==
  IF IndexOf(m.steps[target].incoming_connections, source) = 0
  THEN [m EXCEPT !.steps[target].incoming_connections = <<source>> \o @]
  ELSE m

\* makeConnection(sourcePipelineStepUUID, targetPipelineStepUUID)
makeConnection(m, source, target) ==
  IF IndexOf(m.steps[target].incoming_connections, source) = 0
  THEN [m EXCEPT !.steps[target].incoming_connections = Append(@, source)]
  ELSE m

\* A removeConnection without the test of the index: splice(-1, 1) removes the
\* last entry.
removeConnectionUnchecked(m, source, target) ==
  IF target \notin DOMAIN m.steps THEN Throw(m)
  ELSE LET incoming == m.steps[target].incoming_connections
           connectionIndex == IndexOf(incoming, source)
           at == IF connectionIndex # 0 THEN connectionIndex ELSE Len(incoming)
       IN IF at # 0
          THEN [m EXCEPT !.steps[target].incoming_connections = SpliceAt(@, at),
                         !.unsavedChanges = TRUE]
          ELSE [m EXCEPT !.unsavedChanges = TRUE]

\* removeConnection(sourcePipelineStepUUID, targetPipelineStepUUID): reading
\* incoming_connections of a target that is not in steps throws.
removeConnection(m, source, target) ==
  IF target \notin DOMAIN m.steps THEN Throw(m)
  ELSE LET connectionIndex == IndexOf(m.steps[target].incoming_connections, source)
       IN IF connectionIndex # 0
          THEN [m EXCEPT !.steps[target].incoming_connections =
                            SpliceAt(@, connectionIndex),
                         !.unsavedChanges = TRUE]
          ELSE [m EXCEPT !.unsavedChanges = TRUE]

\* Lines 1263-1277 of deleteStep: the loop over the keys of steps. The connection
\* looked up may be undefined: the splice then removes the last object of
\* this.connections and connection.remove() throws.
RECURSIVE deleteStepIncomingOfOthers(_, _, _)
deleteStepIncomingOfOthers(m, keys, uuid) ==
  IF keys = <<>> THEN m
  ELSE LET key == Head(keys)
           connectionIndex == IndexOf(m.steps[key].incoming_connections, uuid)
       IN IF connectionIndex = 0
          THEN deleteStepIncomingOfOthers(m, Tail(keys), uuid)
          ELSE LET spliced == [m EXCEPT !.steps[key].incoming_connections =
                                           SpliceAt(@, connectionIndex)]
                   connection == getConnectionByUUIDs(m.connections, uuid, key)
                   removed == SpliceConnection(spliced, connection)
               IN IF connection = 0 THEN Throw(removed)
                  ELSE deleteStepIncomingOfOthers(removed, Tail(keys), uuid)

\* Lines 1281-1288 of deleteStep: the loop over the step's own
\* incoming_connections, from index x on.
RECURSIVE deleteStepOwnConnections(_, _, _)
deleteStepOwnConnections(m, uuid, x) ==
  LET incoming == m.steps[uuid].incoming_connections IN
  IF x > Len(incoming) THEN m
  ELSE LET connection == getConnectionByUUIDs(m.connections, incoming[x], uuid)
           removed == SpliceConnection(m, connection)
       IN IF connection = 0 THEN Throw(removed)
          ELSE deleteStepOwnConnections(removed, uuid, x + 1)

\* deleteStep(uuid)
deleteStep(m, uuid) ==
  LET others == deleteStepIncomingOfOthers(m, Keys(m.steps), uuid) IN
  IF others.thrown THEN others
  ELSE IF uuid \notin DOMAIN others.steps THEN Throw(others)
  ELSE LET own == deleteStepOwnConnections(others, uuid, 1) IN
       IF own.thrown THEN own
       ELSE [own EXCEPT !.steps = DeleteKey(@, uuid), !.unsavedChanges = TRUE]

closeDetailsView(m) == [m EXCEPT !.openedStep = Undefined]

\* deleteSelectedSteps, from the x-th selected step on.
RECURSIVE deleteSelectedLoop(_, _)
deleteSelectedLoop(m, x) ==
  IF x > Len(m.selectedSteps) THEN [m EXCEPT !.selectedSteps = <<>>]
  ELSE LET deleted == deleteStep(m, m.selectedSteps[x])
       IN IF deleted.thrown THEN deleted ELSE deleteSelectedLoop(deleted, x + 1)

deleteSelectedSteps(m) == deleteSelectedLoop(closeDetailsView(m), 1)

\* onDetailsDelete
onDetailsDelete(m) ==
  deleteStep([m EXCEPT !.openedStep = Undefined, !.selectedSteps = <<>>], m.openedStep)

\* selectStep(pipelineStepUUID)
selectStep(m, pipelineStepUUID) ==
  [m EXCEPT !.openedStep = pipelineStepUUID, !.selectedSteps = <<pipelineStepUUID>>]

\* deselectSteps
deselectSteps(m) == [closeDetailsView(m) EXCEPT !.selectedSteps = <<>>]

\* deselectConnection
deselectConnection(m) == [m EXCEPT !.selectedConnection = NoConnection]

----------------------------------------------------------------------------
\* The mouseup handlers

\* A mouseup handler that takes every pair of steps for unconnected.
noConnectionExistsUnchecked(m, startNodeUUID, endNodeUUID) == TRUE

\* Lines 645-650: the value noConnectionExists gets when the drag ended on an
\* incoming-connections element.
noConnectionExists(m, startNodeUUID, endNodeUUID) ==
  IndexOf(m.steps[endNodeUUID].incoming_connections, startNodeUUID) = 0

\* The mouseup handler of initializePipelineEditListeners. endNodeUUID is the
\* step on whose incoming-connections element the button was released, or
\* Undefined when it was released anywhere else.
mouseupEdit(m, endNodeUUID) ==
  IF m.newConnection.kind = "undefined" THEN m
  ELSE
    LET startNodeUUID == Deref(m.connections, m.newConnection).startNodeUUID
        dragEndedInIcomingConnectionsElement == endNodeUUID # Undefined
        notConnected ==
          IF dragEndedInIcomingConnectionsElement
          THEN noConnectionExists(m, startNodeUUID, endNodeUUID)
          ELSE TRUE
        checks == notConnected /\ dragEndedInIcomingConnectionsElement
        check == willCreateCycle(m.steps, startNodeUUID, endNodeUUID)
    IN IF checks /\ check.thrown THEN Throw([m EXCEPT !.steps = check.steps])
       ELSE
         LET checked == IF checks THEN [m EXCEPT !.steps = check.steps] ELSE m
             connectionCreatesCycle == checks /\ check.cycles
             alerted == IF connectionCreatesCycle
                        THEN [checked EXCEPT !.alert = "cycle"] ELSE checked
         IN IF dragEndedInIcomingConnectionsElement /\ notConnected
               /\ ~connectionCreatesCycle
            THEN LET ended ==
                       IF alerted.newConnection.kind = "listed"
                       THEN [alerted EXCEPT
                               !.connections[alerted.newConnection.index].endNodeUUID =
                                  endNodeUUID]
                       ELSE alerted
                 IN [makeConnection(ended, startNodeUUID, endNodeUUID)
                       EXCEPT !.newConnection = NoConnection,
                              !.unsavedChanges = TRUE]
            ELSE LET removed == SpliceConnection(alerted, IndexOfRef(alerted.newConnection))
                 IN [removed EXCEPT
                       !.newConnection = NoConnection,
                       !.alert = IF notConnected THEN @ ELSE "already connected"]

\* The part of the mouseup handler of initializePipelineNavigationListeners
\* that a release on the canvas reaches (lines 917-932).
mouseupOnCanvas(m) ==
  IF Len(m.selectedSteps) = 0
  THEN deselectSteps(IF m.selectedConnection.kind # "undefined"
                     THEN deselectConnection(m) ELSE m)
  ELSE m

\* An initializePipeline that registers the edit listeners in every view.
editListenersOfEveryView(m) == m.initializedPipeline

\* initializePipeline, lines 1054-1057: the edit listeners are registered when
\* the pipeline is initialized, unless the view is read-only.
editListeners(m) == m.initializedPipeline /\ ~m.readOnly

\* Both mouseup handlers, in the order of their registration; the handler of
\* the edit listeners runs where they are registered.
mouseupElsewhere(m) == IF editListeners(m) THEN mouseupEdit(m, Undefined) ELSE m

----------------------------------------------------------------------------
\* The state of the component as the handlers' record, and back

Current ==
  [steps |-> steps, initializedPipeline |-> initializedPipeline,
   connections |-> connections, newConnection |-> newConnection,
   selectedConnection |-> selectedConnection, openedStep |-> openedStep,
   selectedSteps |-> selectedSteps, selectedItem |-> selectedItem,
   unsavedChanges |-> unsavedChanges, saveRequests |-> saveRequests,
   continued |-> continued, readOnly |-> readOnly, selectTimers |-> selectTimers,
   thrown |-> FALSE, alert |-> "none"]

incoming_connections(st) == [k \in DOMAIN st |-> st[k].incoming_connections]

\* What the variable last records of a handler: the operation on the steps it
\* ran, its arguments, whether it threw, the alert it raised, and whether the
\* cycle check returned true.
Ran(op, source, target, m) ==
  [op |-> op, source |-> source, target |-> target,
   thrown |-> m.thrown, alert |-> m.alert, cycles |-> m.alert = "cycle"]

\* render, lines 1969-1980: with a step opened, the title of every step in its
\* incoming_connections is read; the read throws for an opened step or an
\* entry that is not in steps.
renderThrows(m) ==
  /\ m.openedStep # Undefined
  /\ \/ m.openedStep \notin DOMAIN m.steps
     \/ \E x \in 1..Len(m.steps[m.openedStep].incoming_connections) :
          m.steps[m.openedStep].incoming_connections[x] \notin DOMAIN m.steps

\* The component after a handler that has left it as m.  A handler that
\* returns ends in setState or forceUpdate, hence in a render: a state that
\* render cannot show ends the view, and the behaviours stop before it.  A
\* handler that throws renders nothing and keeps what it had assigned; at most
\* MaxUncaught handlers throw in one behaviour.
BecomesEditor(m) ==
  /\ steps' = m.steps
  /\ initializedPipeline' = m.initializedPipeline
  /\ connections' = m.connections
  /\ newConnection' = m.newConnection
  /\ selectedConnection' = m.selectedConnection
  /\ openedStep' = m.openedStep
  /\ selectedSteps' = m.selectedSteps
  /\ selectedItem' = m.selectedItem
  /\ unsavedChanges' = m.unsavedChanges
  /\ saveRequests' = m.saveRequests
  /\ continued' = m.continued
  /\ readOnly' = m.readOnly
  /\ selectTimers' = m.selectTimers
  /\ m.thrown \/ ~renderThrows(m)
  /\ m.thrown => uncaught < MaxUncaught
  /\ uncaught' = IF m.thrown THEN uncaught + 1 ELSE uncaught

\* A handler of the editor: the runs stay as they are.
Becomes(m) ==
  /\ BecomesEditor(m)
  /\ UNCHANGED runVars

----------------------------------------------------------------------------
\* Loading

\* A document of n steps without connections and without files, as the
\* backend sends it: the steps have the next uuids, and the document holds no
\* runtime fields.
NewDocument(n) ==
  [steps |-> [k \in (uuidCount + 1)..(uuidCount + n) |->
                [Step(<<>>) EXCEPT !.meta_data = [key \in {"position"} |-> <<0, 0>>]]]]

\* A decodeJSON that leaves the steps as the document has them.
decodeJSONAsIs(m, pipelineJson) ==
  [m EXCEPT !.steps =
     [key \in (DOMAIN m.steps) \cup (DOMAIN pipelineJson.steps) |->
        IF key \in DOMAIN pipelineJson.steps THEN pipelineJson.steps[key]
        ELSE m.steps[key]]]

\* decodeJSON(pipelineJson): every step of the document is written over
\* this.state.steps, which is not emptied first, and gets its runtime fields.
decodeJSON(m, pipelineJson) ==
  [m EXCEPT !.steps =
     [key \in (DOMAIN m.steps) \cup (DOMAIN pipelineJson.steps) |->
        IF key \in DOMAIN pipelineJson.steps
        THEN [pipelineJson.steps[key] EXCEPT !.meta_data =
                [k \in (DOMAIN @) \cup {"_drag_count", "_dragged"} |->
                   IF k = "_drag_count" THEN 0
                   ELSE IF k = "_dragged" THEN FALSE
                   ELSE @[k]]]
        ELSE m.steps[key]]]

\* initializePipeline: one connection object per entry of incoming_connections
\* whose two steps are rendered, in key order.
RECURSIVE initializeConnections(_, _, _)
initializeConnections(m, keys, x) ==
  IF keys = <<>> THEN m
  ELSE LET incoming == m.steps[Head(keys)].incoming_connections IN
       IF x > Len(incoming) THEN initializeConnections(m, Tail(keys), 1)
       ELSE initializeConnections(
              IF incoming[x] \in DOMAIN m.steps
              THEN [m EXCEPT !.connections = Append(@, Connection(incoming[x], Head(keys)))]
              ELSE m,
              keys, x + 1)

initializePipeline(m) ==
  IF m.initializedPipeline THEN m
  ELSE initializeConnections([m EXCEPT !.initializedPipeline = TRUE], Keys(m.steps), 1)

----------------------------------------------------------------------------
\* The specification of the editor

Init ==
  /\ steps = <<>>
  /\ initializedPipeline = FALSE
  /\ uuidCount = 0
  /\ connections = <<>>
  /\ newConnection = NoConnection
  /\ selectedConnection = NoConnection
  /\ openedStep = Undefined
  /\ selectedSteps = <<>>
  /\ mouseDown = FALSE
  /\ selectedItem = Undefined
  /\ unsavedChanges = FALSE
  /\ saveRequests = <<>>
  /\ continued = 0
  /\ readOnly = FALSE
  /\ selectTimers = <<>>
  /\ uncaught = 0
  /\ NoRun
  /\ last = [op |-> "constructor", source |-> Undefined, target |-> Undefined,
             thrown |-> FALSE, alert |-> "none", cycles |-> FALSE]

\* The response of fetchPipelineAndInitialize: decodeJSON, then initializePipeline.
FetchPipelineResponse(n) ==
  /\ ~initializedPipeline
  /\ uuidCount + n <= MaxSteps
  /\ LET m == initializePipeline(decodeJSON(Current, NewDocument(n)))
     IN Becomes(m) /\ last' = Ran("fetchPipelineAndInitialize", Undefined, Undefined, m)
  /\ uuidCount' = uuidCount + n
  /\ UNCHANGED mouseDown

\* A newStep whose uuid is not fresh: the step goes under the first key of steps.
newStepOverFirst(m, uuid) ==
  LET deselected == deselectSteps(mouseupElsewhere(m))
      key == IF DOMAIN m.steps = {} THEN uuid ELSE Head(Keys(m.steps))
  IN selectStep([deselected EXCEPT !.steps = SetKey(@, key, Step(<<>>))], key)

\* newStep with the response to its request: the click on NEW STEP (its mouseup
\* reaches the document's handlers), deselectSteps, and in the response the new
\* step, which is selected.
newStep(m, uuid) ==
  LET deselected == deselectSteps(mouseupElsewhere(m))
  IN selectStep([deselected EXCEPT !.steps = SetKey(@, uuid, Step(<<>>))], uuid)

NewStep ==
  /\ ~mouseDown
  /\ uuidCount < MaxSteps
  /\ LET m == newStep(Current, uuidCount + 1)
     IN Becomes(m) /\ last' = Ran("newStep", Undefined, Undefined, m)
  /\ uuidCount' = uuidCount + 1
  /\ UNCHANGED mouseDown

\* A click on a step without Ctrl: mousedown on the step, mouseup (both
\* handlers), and the selectStep that onClickStepHandler defers.
ClickStep(u) ==
  /\ initializedPipeline /\ ~mouseDown
  /\ u \in DOMAIN steps
  /\ LET m == selectStep(mouseupElsewhere(Current), u)
     IN Becomes(m) /\ last' = Ran("other", Undefined, Undefined, m)
  /\ UNCHANGED <<uuidCount, mouseDown>>

\* A click on a step with Ctrl held (lines 859-905): the step enters or leaves
\* the selection.
ctrlClickStep(m, u) ==
  LET toggled == [m EXCEPT !.selectedSteps =
                     IF IndexOf(@, u) = 0 THEN Append(@, u)
                     ELSE SpliceAt(@, IndexOf(@, u))]
      shown == IF Len(toggled.selectedSteps) = 1
               THEN selectStep(toggled, toggled.selectedSteps[1])
               ELSE IF Len(toggled.selectedSteps) > 1
               THEN closeDetailsView(toggled)
               ELSE toggled
  IN mouseupElsewhere(shown)

CtrlClickStep(u) ==
  /\ initializedPipeline /\ ~mouseDown
  /\ u \in DOMAIN steps
  /\ LET m == ctrlClickStep(Current, u)
     IN Becomes(m) /\ last' = Ran("other", Undefined, Undefined, m)
  /\ UNCHANGED <<uuidCount, mouseDown>>

\* mousedown on the outgoing-connections element of a step: a drag starts.
MouseDownOutgoing(u) ==
  /\ initializedPipeline /\ ~mouseDown
  /\ selectedItem = Undefined
  /\ u \in DOMAIN steps
  /\ Len(connections) < MaxConnections
  /\ LET m == createConnection(Current, u)
     IN Becomes(m) /\ last' = Ran("other", Undefined, Undefined, m)
  /\ mouseDown' = TRUE
  /\ UNCHANGED uuidCount

\* The drag ends on the incoming-connections element of step t: the connect
\* attempt from the step where the drag started to t.
MouseUpOnIncoming(t) ==
  /\ mouseDown
  /\ t \in DOMAIN steps
  /\ LET m == mouseupEdit(Current, t)
     IN Becomes(m)
        /\ last' = Ran("connect", Deref(connections, newConnection).startNodeUUID, t, m)
  /\ mouseDown' = FALSE
  /\ UNCHANGED uuidCount

\* The drag ends on the empty canvas.
MouseUpOnCanvas ==
  /\ mouseDown
  /\ LET m == mouseupEdit(mouseupOnCanvas(Current), Undefined)
     IN Becomes(m) /\ last' = Ran("other", Undefined, Undefined, m)
  /\ mouseDown' = FALSE
  /\ UNCHANGED uuidCount

\* The drag ends anywhere else (on the body of a step, on a button).
MouseUpElsewhere ==
  /\ mouseDown
  /\ LET m == mouseupEdit(Current, Undefined)
     IN Becomes(m) /\ last' = Ran("other", Undefined, Undefined, m)
  /\ mouseDown' = FALSE
  /\ UNCHANGED uuidCount

\* A click on the path of the i-th connection (lines 953-974): the first
\* object with the uuids of the element becomes the selected connection.
clickConnection(m, i) ==
  LET c == m.connections[i]
  IN mouseupElsewhere(
       [m EXCEPT !.selectedConnection =
          Listed(getConnectionByUUIDs(m.connections, c.startNodeUUID, c.endNodeUUID))])

ClickConnection(i) ==
  /\ initializedPipeline /\ ~mouseDown
  /\ i \in 1..Len(connections)
  /\ connections[i].endNodeUUID # Undefined
  /\ LET m == clickConnection(Current, i)
     IN Becomes(m) /\ last' = Ran("other", Undefined, Undefined, m)
  /\ UNCHANGED <<uuidCount, mouseDown>>

\* The keydown handler of Delete or Backspace: deleteSelectedSteps.
KeyDownDelete ==
  /\ initializedPipeline
  /\ LET m == deleteSelectedSteps(Current)
     IN Becomes(m) /\ last' = Ran("deleteSelectedSteps", Undefined, Undefined, m)
  /\ UNCHANGED <<uuidCount, mouseDown>>

\* The keyup handler of Delete or Backspace (lines 738-754): the selected
\* connection is removed from the target's incoming_connections and from
\* this.connections.  The handler does not reset this.selectedConnection;
\* KeyUpDelete explores the key-up while the selected object is still in
\* this.connections, and leaves out the key-ups that follow with the same,
\* removed object selected.
keyupDelete(m) ==
  LET c == Deref(m.connections, m.selectedConnection)
      removed == removeConnection(m, c.startNodeUUID, c.endNodeUUID)
  IN IF m.selectedConnection.kind = "undefined" THEN m
     ELSE IF removed.thrown THEN removed
     ELSE SpliceConnection(removed, IndexOfRef(removed.selectedConnection))

KeyUpDelete ==
  /\ initializedPipeline
  /\ selectedConnection.kind = "listed"
  /\ LET c == Deref(connections, selectedConnection)
         m == keyupDelete(Current)
     IN Becomes(m) /\ last' = Ran("disconnect", c.startNodeUUID, c.endNodeUUID, m)
  /\ UNCHANGED <<uuidCount, mouseDown>>

\* keyup of Escape (lines 994-1002).
KeyUpEscape ==
  /\ initializedPipeline
  /\ LET m == deselectSteps(IF selectedConnection.kind # "undefined"
                            THEN deselectConnection(Current) ELSE Current)
     IN Becomes(m) /\ last' = Ran("other", Undefined, Undefined, m)
  /\ UNCHANGED <<uuidCount, mouseDown>>

\* A click on the delete button of the details of the opened step.
DetailsDelete ==
  /\ ~mouseDown
  /\ openedStep # Undefined
  /\ LET m == onDetailsDelete(mouseupElsewhere(Current))
     IN Becomes(m) /\ last' = Ran("deleteStep", Undefined, openedStep, m)
  /\ UNCHANGED <<uuidCount, mouseDown>>

\* The handlers that select and delete single steps, add steps and drag
\* connections.
Edit ==
  \/ \E n \in 0..MaxSteps : FetchPipelineResponse(n)
  \/ NewStep
  \/ \E u \in UUIDs : ClickStep(u)
  \/ \E u \in UUIDs : MouseDownOutgoing(u)
  \/ \E t \in UUIDs : MouseUpOnIncoming(t)
  \/ MouseUpOnCanvas
  \/ MouseUpElsewhere
  \/ KeyDownDelete
  \/ KeyUpEscape
  \/ DetailsDelete

\* The editor with the selection and deletion of connections.
Next ==
  \/ Edit
  \/ \E i \in 1..MaxConnections : ClickConnection(i)
  \/ KeyUpDelete

Spec == Init /\ [][Next]_vars

\* The editor with the selection of several steps by Ctrl-click.
NextMulti ==
  \/ Edit
  \/ \E u \in UUIDs : CtrlClickStep(u)

SpecMulti == Init /\ [][NextMulti]_vars

----------------------------------------------------------------------------
\* The cycle check as a function of the graph: the view has loaded a document
\* whose steps refer to each other in any way (the document is not validated
\* when it is loaded, so it may hold cycles), and willCreateCycle is applied
\* to any two of its steps.

\* The duplicate-free arrays over the uuids S.
Lists(S) ==
  {l \in UNION {[1..k -> S] : k \in 0..Cardinality(S)} :
     \A i, j \in 1..Len(l) : i # j => l[i] # l[j]}

\* The component as the constructor leaves it.
Constructed ==
  [steps |-> <<>>, initializedPipeline |-> FALSE, connections |-> <<>>,
   newConnection |-> NoConnection, selectedConnection |-> NoConnection,
   openedStep |-> Undefined, selectedSteps |-> <<>>,
   selectedItem |-> Undefined, unsavedChanges |-> FALSE,
   saveRequests |-> <<>>, continued |-> 0, readOnly |-> FALSE,
   selectTimers |-> <<>>,
   thrown |-> FALSE, alert |-> "none"]

\* The component after fetchPipelineAndInitialize has loaded the steps st.
Loaded(st) == initializePipeline([Constructed EXCEPT !.steps = st])

InitCycle ==
  /\ uuidCount \in 1..MaxSteps
  /\ steps \in [1..uuidCount -> {Step(l) : l \in Lists(1..uuidCount)}]
  /\ initializedPipeline = TRUE
  /\ connections = Loaded(steps).connections
  /\ newConnection = NoConnection
  /\ selectedConnection = NoConnection
  /\ openedStep = Undefined
  /\ selectedSteps = <<>>
  /\ mouseDown = FALSE
  /\ selectedItem = Undefined
  /\ unsavedChanges = FALSE
  /\ saveRequests = <<>>
  /\ continued = 0
  /\ readOnly = FALSE
  /\ selectTimers = <<>>
  /\ uncaught = 0
  /\ NoRun
  /\ last = [op |-> "fetchPipelineAndInitialize", source |-> Undefined,
             target |-> Undefined, thrown |-> FALSE, alert |-> "none",
             cycles |-> FALSE]

\* A call willCreateCycle(s, t).
CycleCheck(s, t) ==
  /\ s \in DOMAIN steps /\ t \in DOMAIN steps
  /\ LET r == willCreateCycle(steps, s, t)
     IN /\ steps' = r.steps
        /\ last' = [op |-> "willCreateCycle", source |-> s, target |-> t,
                    thrown |-> r.thrown, alert |-> "none", cycles |-> r.cycles]
  /\ UNCHANGED <<initializedPipeline, uuidCount, connections, newConnection,
                 selectedConnection, openedStep, selectedSteps, mouseDown,
                 selectedItem, unsavedChanges, saveRequests, continued,
                readOnly, selectTimers, uncaught,
                 runVars>>

NextCycle == \E s, t \in UUIDs : CycleCheck(s, t)

SpecCycle == InitCycle /\ [][NextCycle]_vars

----------------------------------------------------------------------------
\* Graphs, for the properties

\* The entries of the array arr.
Range(arr) == {arr[i] : i \in 1..Len(arr)}

\* The connections of the steps st as pairs <<source, target>>.
Edges(st) ==
  UNION {{<<st[t].incoming_connections[x], t>> :
            x \in 1..Len(st[t].incoming_connections)} : t \in DOMAIN st}

Successors(E, S) == {e[2] : e \in {f \in E : f[1] \in S}}

RECURSIVE ReachableFrom(_, _)
ReachableFrom(E, S) ==
  LET N == S \cup Successors(E, S)
  IN IF N = S THEN S ELSE ReachableFrom(E, N)

\* b is reached from a along one or more connections of E.
Reaches(E, a, b) == b \in ReachableFrom(E, Successors(E, {a}))

HasCycle(E) == \E e \in E : Reaches(E, e[1], e[1])

\* The array arr without the entries in D.
Without(arr, D) == SelectSeq(arr, LAMBDA x : x \notin D)

\* The steps that the handler of this step of the behaviour was to delete.
ToDelete ==
  IF last'.op = "deleteStep" THEN {last'.target} \cap DOMAIN steps
  ELSE IF last'.op = "deleteSelectedSteps" THEN Range(selectedSteps) \cap DOMAIN steps
  ELSE {}

----------------------------------------------------------------------------
\* The selection and removal of connections in a loaded document, with the
\* key-ups of Delete that follow the removal of the selected connection:
\* nothing resets this.selectedConnection, so each of them runs the handler
\* again with the removed object.

\* Entries of incoming_connections in a document.
MaxEntries == 3

InitKeys ==
  /\ uuidCount \in 1..MaxSteps
  /\ steps \in {st \in [1..uuidCount -> {Step(l) : l \in Lists(1..uuidCount)}] :
                  Cardinality(Edges(st)) <= MaxEntries}
  /\ initializedPipeline = TRUE
  /\ connections = Loaded(steps).connections
  /\ newConnection = NoConnection
  /\ selectedConnection = NoConnection
  /\ openedStep = Undefined
  /\ selectedSteps = <<>>
  /\ mouseDown = FALSE
  /\ selectedItem = Undefined
  /\ unsavedChanges = FALSE
  /\ saveRequests = <<>>
  /\ continued = 0
  /\ readOnly = FALSE
  /\ selectTimers = <<>>
  /\ uncaught = 0
  /\ NoRun
  /\ last = [op |-> "fetchPipelineAndInitialize", source |-> Undefined,
             target |-> Undefined, thrown |-> FALSE, alert |-> "none",
             cycles |-> FALSE]

\* The keyup handler of Delete or Backspace (lines 738-754) with a selected
\* connection that is no longer in this.connections.
KeyUpDeleteRepeated ==
  /\ initializedPipeline
  /\ selectedConnection.kind = "detached"
  /\ LET c == Deref(connections, selectedConnection)
         m == keyupDelete(Current)
     IN Becomes(m) /\ last' = Ran("disconnect", c.startNodeUUID, c.endNodeUUID, m)
  /\ UNCHANGED <<uuidCount, mouseDown>>

NextKeys ==
  \/ \E i \in 1..MaxEntries : ClickConnection(i)
  \/ KeyUpDelete
  \/ KeyUpDeleteRepeated
  \/ KeyUpEscape

SpecKeys == InitKeys /\ [][NextKeys]_vars

----------------------------------------------------------------------------
\* Saving: encodeJSON, validatePipelineJSON, savePipeline, saveBeforeAction

\* The first character of a key of meta_data.
FirstChar(key) ==
  CASE key = "position" -> "p"
    [] key = "_drag_count" -> "_"
    [] key = "_dragged" -> "_"

\* An encoding that copies the whole step.
encodeStepWhole(step) == step

\* Lines 437-452: the copy of a step that goes into the document, without the
\* keys of meta_data that start with an underscore and without
\* outgoing_connections.
encodeStep(step) ==
  LET meta_data == step.meta_data
      kept == {key \in DOMAIN meta_data : FirstChar(key) # "_"}
  IN [step EXCEPT !.meta_data = [key \in kept |-> meta_data[key]],
                  !.outgoing_connections = <<>>,
                  !.outgoing_defined = FALSE]

\* encodeJSON(): the document of this.state.steps, one entry per step under
\* the step's uuid.
encodeJSON(m) == [steps |-> [key \in DOMAIN m.steps |-> encodeStep(m.steps[key])]]

\* extensionFromFilename of lib/utils: the extension of a file path.
extensionFromFilename(file_path) == file_path.extension

\* Lines 367-383: the loop over the other steps; the key of the first step that
\* has the file of step stepKey, Undefined when there is none.
RECURSIVE validateOtherSteps(_, _, _)
validateOtherSteps(pipelineJSON, stepKey, otherKeys) ==
  IF otherKeys = <<>> THEN Undefined
  ELSE LET otherStepKey == Head(otherKeys) IN
       IF stepKey = otherStepKey
       THEN validateOtherSteps(pipelineJSON, stepKey, Tail(otherKeys))
       ELSE IF pipelineJSON.steps[otherStepKey].file_path
                 = pipelineJSON.steps[stepKey].file_path
       THEN otherStepKey
       ELSE validateOtherSteps(pipelineJSON, stepKey, Tail(otherKeys))

RECURSIVE validateSteps(_, _, _)

\* A validation that compares the files of the scripts as well.
validateStepsOfAnyKind(pipelineJSON, keys, errors) ==
  LET conflicts == {pair \in (DOMAIN pipelineJSON.steps) \X (DOMAIN pipelineJSON.steps) :
                      /\ pair[1] # pair[2]
                      /\ pipelineJSON.steps[pair[1]].file_path
                           = pipelineJSON.steps[pair[2]].file_path}
  IN IF conflicts = {} THEN [valid |-> TRUE, errors |-> errors]
     ELSE [valid |-> FALSE,
           errors |-> Append(errors, CHOOSE pair \in conflicts : TRUE)]

\* Lines 363-385: the loop over the steps, which stops at the first error.
validateSteps(pipelineJSON, keys, errors) ==
  IF keys = <<>> THEN [valid |-> TRUE, errors |-> errors]
  ELSE LET stepKey == Head(keys)
           otherStepKey ==
             IF extensionFromFilename(pipelineJSON.steps[stepKey].file_path) = "ipynb"
             THEN validateOtherSteps(pipelineJSON, stepKey, Keys(pipelineJSON.steps))
             ELSE Undefined
       IN IF otherStepKey # Undefined
          THEN [valid |-> FALSE, errors |-> Append(errors, <<stepKey, otherStepKey>>)]
          ELSE validateSteps(pipelineJSON, Tail(keys), errors)

\* A validation that leaves only the inner loop at an error, and so reports
\* every notebook step that shares its file.
validatePipelineJSONEveryStep(pipelineJSON) ==
  LET keys == Keys(pipelineJSON.steps)
      conflicting ==
        SelectSeq(keys,
                  LAMBDA stepKey :
                    /\ extensionFromFilename(pipelineJSON.steps[stepKey].file_path) = "ipynb"
                    /\ validateOtherSteps(pipelineJSON, stepKey, keys) # Undefined)
      errors == [x \in 1..Len(conflicting) |->
                   <<conflicting[x], validateOtherSteps(pipelineJSON, conflicting[x], keys)>>]
  IN [valid |-> errors = <<>>, errors |-> errors]

\* validatePipelineJSON(pipelineJSON): valid, and the errors as pairs of the
\* two steps each names.
validatePipelineJSON(pipelineJSON) ==
  validateSteps(pipelineJSON, Keys(pipelineJSON.steps), <<>>)

\* A savePipeline that sends the document whatever the validation says.
savePipelineUnvalidated(m, callback) ==
  IF m.readOnly THEN m
  ELSE IF ~m.initializedPipeline THEN Throw(m)
  ELSE LET pipelineJSON == encodeJSON(m)
           pipelineValidation == validatePipelineJSON(pipelineJSON)
       IN [m EXCEPT !.saveRequests =
                       Append(@, [pipeline_json |-> pipelineJSON, callback |-> callback]),
                    !.unsavedChanges = FALSE,
                    !.alert = IF pipelineValidation.valid THEN @ ELSE "validation"]

\* savePipeline(callback): nothing but a console message in a read-only view.
\* callback is TRUE for a continuation and FALSE for none.  Before the
\* document has been loaded this.state.pipelineJson is undefined and line 431
\* throws.
savePipeline(m, callback) ==
  IF m.readOnly THEN m
  ELSE IF ~m.initializedPipeline THEN Throw(m)
  ELSE LET pipelineJSON == encodeJSON(m)
           pipelineValidation == validatePipelineJSON(pipelineJSON)
       IN IF ~pipelineValidation.valid
          THEN [m EXCEPT !.alert = "validation"]
          ELSE [m EXCEPT !.saveRequests =
                            Append(@, [pipeline_json |-> pipelineJSON,
                                       callback |-> callback]),
                         !.unsavedChanges = FALSE]

\* saveBeforeAction(actionCallback)
saveBeforeAction(m) ==
  IF m.unsavedChanges THEN savePipeline(m, TRUE)
  ELSE [m EXCEPT !.continued = @ + 1]

----------------------------------------------------------------------------
\* Dragging a step

\* The number of mousemove events that make a press on a step a drag.
DRAG_CLICK_SENSITIVITY == 3

\* mousedown on a step, not on its outgoing dot (lines 832-843).
mousedownStep(m, stepUUID) == [m EXCEPT !.selectedItem = stepUUID]

\* Lines 780-794: the loop over the selected steps, from the x-th on; the
\* position of a selected step that is not in steps cannot be read.
RECURSIVE moveSelectedSteps(_, _)
moveSelectedSteps(m, x) ==
  IF x > Len(m.selectedSteps) THEN m
  ELSE IF m.selectedSteps[x] \notin DOMAIN m.steps THEN Throw(m)
  ELSE moveSelectedSteps([m EXCEPT !.unsavedChanges = TRUE], x + 1)

\* The mousemove handler while the button is held on a step (lines 757-807).
mousemoveStep(m) ==
  IF m.selectedItem \notin DOMAIN m.steps THEN Throw(m)
  ELSE LET count == m.steps[m.selectedItem].meta_data["_drag_count"] + 1
           counted ==
             IF count >= DRAG_CLICK_SENSITIVITY
             THEN [m EXCEPT !.steps[m.selectedItem].meta_data =
                              [@ EXCEPT !["_dragged"] = TRUE, !["_drag_count"] = 0]]
             ELSE [m EXCEPT !.steps[m.selectedItem].meta_data =
                              [@ EXCEPT !["_drag_count"] = count]]
       IN IF Len(m.selectedSteps) > 1 /\ IndexOf(m.selectedSteps, m.selectedItem) # 0
          THEN moveSelectedSteps(counted, 1)
          ELSE [counted EXCEPT !.unsavedChanges = TRUE]

\* The mouseup handlers when the button was held on a step, without Ctrl: the
\* handler of the navigation listeners (lines 845-943, its timer included),
\* then the handler of the edit listeners, then the selectStep that
\* onClickStepHandler defers when the press was a click.
mouseupStep(m) ==
  IF m.selectedItem \notin DOMAIN m.steps THEN Throw(m)
  ELSE LET stepDragged == m.steps[m.selectedItem].meta_data["_dragged"]
           reset == [m EXCEPT !.steps[m.selectedItem].meta_data =
                                [@ EXCEPT !["_dragged"] = FALSE, !["_drag_count"] = 0]]
           shown == IF Len(reset.selectedSteps) > 1 /\ ~stepDragged
                    THEN closeDetailsView(reset) ELSE reset
           released == [mouseupElsewhere(shown) EXCEPT !.selectedItem = Undefined]
       IN IF stepDragged THEN released ELSE selectStep(released, m.selectedItem)

MouseDownStep(u) ==
  /\ initializedPipeline /\ ~mouseDown
  /\ selectedItem = Undefined
  /\ u \in DOMAIN steps
  /\ LET m == mousedownStep(Current, u)
     IN Becomes(m) /\ last' = Ran("other", Undefined, Undefined, m)
  /\ UNCHANGED <<uuidCount, mouseDown>>

MouseMoveStep ==
  /\ selectedItem # Undefined
  /\ LET m == mousemoveStep(Current)
     IN Becomes(m) /\ last' = Ran("other", Undefined, Undefined, m)
  /\ UNCHANGED <<uuidCount, mouseDown>>

MouseUpStep ==
  /\ selectedItem # Undefined
  /\ LET m == mouseupStep(Current)
     IN Becomes(m) /\ last' = Ran("other", Undefined, Undefined, m)
  /\ UNCHANGED <<uuidCount, mouseDown>>

\* A step is dragged: the press, DRAG_CLICK_SENSITIVITY mousemove events and
\* the release.
RECURSIVE mousemoveSteps(_, _)
mousemoveSteps(m, n) == IF n = 0 THEN m ELSE mousemoveSteps(mousemoveStep(m), n - 1)

DragStep(u) ==
  /\ initializedPipeline /\ ~mouseDown
  /\ selectedItem = Undefined
  /\ u \in DOMAIN steps
  /\ LET m == mouseupStep(mousemoveSteps(mousedownStep(Current, u), DRAG_CLICK_SENSITIVITY))
     IN Becomes(m) /\ last' = Ran("other", Undefined, Undefined, m)
  /\ UNCHANGED <<uuidCount, mouseDown>>

----------------------------------------------------------------------------
\* The saving of loaded documents.  A document is not validated when it is
\* loaded, so its steps may have any files.

\* Save requests in flight, and continuations run, in one behaviour.
MaxRequests == 1
MaxContinued == 2

FilePaths ==
  {NoFile, FilePath("a", "ipynb"), FilePath("b", "ipynb"), FilePath("a", "py")}

\* A click on SAVE, or Ctrl+S: savePipeline without a continuation.
SavePipeline ==
  /\ Len(saveRequests) < MaxRequests
  /\ LET m == savePipeline(Current, FALSE)
     IN Becomes(m) /\ last' = Ran("savePipeline", Undefined, Undefined, m)
  /\ UNCHANGED <<uuidCount, mouseDown>>

\* A handler that runs its action through saveBeforeAction (opening the file
\* preview or the notebook, running steps).
SaveBeforeAction ==
  /\ Len(saveRequests) < MaxRequests
  /\ continued < MaxContinued
  /\ LET m == saveBeforeAction(Current)
     IN Becomes(m) /\ last' = Ran("saveBeforeAction", Undefined, Undefined, m)
  /\ UNCHANGED <<uuidCount, mouseDown>>

\* The response to the oldest save request (lines 412-416): when the request
\* succeeded its continuation runs; a failed request is not handled.
SaveResponse(succeeded) ==
  /\ saveRequests # <<>>
  /\ continued < MaxContinued
  /\ LET m == [Current EXCEPT
                 !.saveRequests = Tail(@),
                 !.continued = IF succeeded /\ Head(saveRequests).callback
                               THEN @ + 1 ELSE @]
     IN Becomes(m) /\ last' = Ran("saveResponse", Undefined, Undefined, m)
  /\ UNCHANGED <<uuidCount, mouseDown>>

InitValidate ==
  /\ uuidCount \in 1..MaxSteps
  /\ steps \in
       {decodeJSON(Constructed, [steps |-> doc]).steps :
          doc \in [1..uuidCount ->
                     {[Step(<<>>) EXCEPT !.file_path = p] : p \in FilePaths}]}
  /\ initializedPipeline = TRUE
  /\ connections = <<>>
  /\ newConnection = NoConnection
  /\ selectedConnection = NoConnection
  /\ openedStep = Undefined
  /\ selectedSteps = <<>>
  /\ mouseDown = FALSE
  /\ selectedItem = Undefined
  /\ unsavedChanges = FALSE
  /\ saveRequests = <<>>
  /\ continued = 0
  /\ readOnly = FALSE
  /\ selectTimers = <<>>
  /\ uncaught = 0
  /\ NoRun
  /\ last = [op |-> "fetchPipelineAndInitialize", source |-> Undefined,
             target |-> Undefined, thrown |-> FALSE, alert |-> "none",
             cycles |-> FALSE]

NextValidate ==
  \/ \E u \in UUIDs : DragStep(u)
  \/ SavePipeline
  \/ SaveBeforeAction
  \/ \E succeeded \in BOOLEAN : SaveResponse(succeeded)

SpecValidate == InitValidate /\ [][NextValidate]_vars

----------------------------------------------------------------------------
\* Encoding and decoding: documents are saved while steps are dragged and
\* connected, and a saved document is loaded again.

\* The steps of st whose drag counters are not at their defaults.
InDrag(st) ==
  {u \in DOMAIN st : st[u].meta_data["_dragged"] \/ st[u].meta_data["_drag_count"] > 0}

\* The view is opened again after a save request was served: a new component
\* loads the document of the request (componentDidMount, lines 499-503).
\* last.target is then a step that was in a drag, if there was one and the
\* steps were still as the document has them.
Reopen ==
  /\ saveRequests # <<>>
  /\ LET pipelineJson == Head(saveRequests).pipeline_json
         m == initializePipeline(decodeJSON(Constructed, pipelineJson))
         held == IF InDrag(steps) = {} \/ pipelineJson # encodeJSON(Current) THEN Undefined
                 ELSE CHOOSE u \in InDrag(steps) : TRUE
     IN Becomes(m) /\ last' = Ran("reopen", Undefined, held, m)
  /\ mouseDown' = FALSE
  /\ UNCHANGED uuidCount

InitEncode ==
  /\ InitKeys
  /\ Len(connections) < MaxConnections

NextEncode ==
  \/ \E u \in UUIDs : MouseDownStep(u) \/ MouseDownOutgoing(u) \/ MouseUpOnIncoming(u)
  \/ MouseMoveStep
  \/ MouseUpStep
  \/ SavePipeline
  \/ Reopen

SpecEncode == InitEncode /\ [][NextEncode]_vars

----------------------------------------------------------------------------
\* Runs of the pipeline: runStepUUIDs, cancelRun, the status polls

\* Runs that the backend holds, responses in flight and interval timers set
\* in one behaviour.
MaxRuns == 3
MaxResponses == 2
MaxIntervals == 3

\* The statuses of a run (lines 1415, 1422).
Active == {"PENDING", "STARTED"}
Terminal == {"SUCCESS", "ABORTED", "FAILURE"}

editorVars == <<steps, initializedPipeline, uuidCount, connections, newConnection,
                selectedConnection, openedStep, selectedSteps, mouseDown,
                selectedItem, unsavedChanges, saveRequests, continued,
                readOnly, selectTimers, uncaught,
                last>>

\* The view, the backend and the responses in flight as the record that the
\* handlers of this section change.
CurrentRun ==
  [pipelineRunning |-> pipelineRunning, waitingOnCancel |-> waitingOnCancel,
   runUUID |-> runUUID, backendRunning |-> backendRunning,
   pipelineStepStatusPollingInterval |-> pipelineStepStatusPollingInterval,
   intervals |-> intervals, runs |-> runs, responses |-> responses,
   mounted |-> mounted, alert |-> "none"]

\* The state after a handler that left the record w and that handled response.
BecomesRunning(w, response) ==
  /\ pipelineRunning' = w.pipelineRunning
  /\ waitingOnCancel' = w.waitingOnCancel
  /\ runUUID' = w.runUUID
  /\ backendRunning' = w.backendRunning
  /\ pipelineStepStatusPollingInterval' = w.pipelineStepStatusPollingInterval
  /\ intervals' = w.intervals
  /\ runs' = w.runs
  /\ responses' = w.responses
  /\ mounted' = w.mounted
  /\ handled' = response

\* A handler of the runs: the editor stays as it is.
BecomesRun(w, response) ==
  /\ BecomesRunning(w, response)
  /\ UNCHANGED editorVars

\* A request is made and the backend answers it with response, which is then
\* on its way to the view.
Send(w, response) == [w EXCEPT !.responses = @ (+) SetToBag({response})]

\* The response reaches the view.
Receive(w, response) == [w EXCEPT !.responses = @ (-) SetToBag({response})]

Max(S) == CHOOSE x \in S : \A y \in S : y <= x

\* startStatusInterval(): setInterval returns a handle that no timer had.
startStatusInterval(w) ==
  LET id == Max(w.intervals \cup {w.pipelineStepStatusPollingInterval}) + 1
  IN [w EXCEPT !.pipelineStepStatusPollingInterval = id,
               !.intervals = @ \cup {id}]

\* clearInterval(handle)
clearInterval(w, handle) == [w EXCEPT !.intervals = @ \ {handle}]

\* pollPipelineStepStatuses(), lines 1405-1409: the request; the backend
\* answers with the status the run has then.
pollPipelineStepStatuses(w) ==
  IF w.runUUID # Undefined
  THEN Send(w, Response("poll", w.runUUID, w.runs[w.runUUID]))
  ELSE w

\* pollPipelineStepStatuses(), lines 1411-1434: the handler of the response.
pollPipelineStepStatusesThen(w, result) ==
  LET running == IF result.result \in Active
                 THEN [w EXCEPT !.pipelineRunning = TRUE] ELSE w
  IN IF result.result \in Terminal
     THEN clearInterval([running EXCEPT !.pipelineRunning = FALSE,
                                        !.waitingOnCancel = FALSE],
                        w.pipelineStepStatusPollingInterval)
     ELSE running

\* fetchActivePipelineRuns(), lines 336-353: the handler of the response; run
\* is the first run of the response, Undefined when it has none.
fetchActivePipelineRunsThen(w, run) ==
  IF run # Undefined
  THEN startStatusInterval(pollPipelineStepStatuses([w EXCEPT !.runUUID = run]))
  ELSE w

\* The uuid of the run that the backend had when the view was opened, if it
\* had one; the runs that the view starts get the uuids after it.
EarlierRun == 1

NewRun(rs) == Max((DOMAIN rs) \cup {EarlierRun}) + 1

\* runStepUUIDs(uuids, type), lines 1584-1619. The backend accepts the request
\* and creates the run, or refuses it.
runStepUUIDs(w, accepted) ==
  IF ~w.backendRunning THEN [w EXCEPT !.alert = "no session"]
  ELSE IF w.pipelineRunning THEN [w EXCEPT !.alert = "executing"]
  ELSE LET set == [w EXCEPT !.pipelineRunning = TRUE]
       IN IF accepted
          THEN Send([set EXCEPT !.runs = SetKey(@, NewRun(w.runs), "PENDING")],
                    Response("run", NewRun(w.runs), "PENDING"))
          ELSE Send(set, Response("run", Undefined, "failed"))

\* runStepUUIDs, lines 1621-1650: the handlers of the response.
runStepUUIDsThen(w, result) ==
  IF result.run # Undefined
  THEN startStatusInterval([w EXCEPT !.runUUID = result.run])
  ELSE [w EXCEPT !.pipelineRunning = FALSE, !.alert = "failed to start"]

\* cancelRun(), lines 1562-1581. The backend aborts the run when it is active;
\* a request for the run undefined fails.
cancelRun(w, succeeded) ==
  IF ~w.pipelineRunning THEN [w EXCEPT !.alert = "no pipeline running"]
  ELSE IF succeeded /\ w.runUUID # Undefined
  THEN Send([w EXCEPT !.runs[w.runUUID] = IF @ \in Active THEN "ABORTED" ELSE @],
            Response("cancel", w.runUUID, "ok"))
  ELSE Send(w, Response("cancel", w.runUUID, "failed"))

\* cancelRun, lines 1570-1580: the handlers of the response.
cancelRunThen(w, result) ==
  IF result.result = "ok"
  THEN [w EXCEPT !.waitingOnCancel = TRUE]
  ELSE [w EXCEPT !.alert = "could not cancel"]

\* componentWillUnmount(), line 215
componentWillUnmount(w) ==
  [clearInterval(w, w.pipelineStepStatusPollingInterval) EXCEPT !.mounted = FALSE]

\* The response to fetchActivePipelineRuns arrives.
FetchActivePipelineRunsResponse ==
  /\ mounted
  /\ \E response \in BagToSet(responses) :
       /\ response.type = "runs"
       /\ response.run # Undefined => Max(intervals \cup {pipelineStepStatusPollingInterval}) < MaxIntervals
       /\ BecomesRun(fetchActivePipelineRunsThen(Receive(CurrentRun, response), response.run),
                     response)

\* Run selected steps or Run incoming steps, when nothing is unsaved.
RunStepUUIDs(accepted) ==
  /\ mounted
  /\ BagCardinality(responses) < MaxResponses
  /\ accepted => NewRun(runs) <= MaxRuns
  /\ BecomesRun(runStepUUIDs(CurrentRun, accepted), NoResponse)

\* The response to the request that starts a run arrives.
RunStepUUIDsResponse ==
  /\ mounted
  /\ \E response \in BagToSet(responses) :
       /\ response.type = "run"
       /\ response.run # Undefined => Max(intervals \cup {pipelineStepStatusPollingInterval}) < MaxIntervals
       /\ BecomesRun(runStepUUIDsThen(Receive(CurrentRun, response), response), response)

\* An interval timer fires.
IntervalFires ==
  /\ mounted
  /\ intervals # {}
  /\ runUUID # Undefined
  /\ BagCardinality(responses) < MaxResponses
  /\ BecomesRun(pollPipelineStepStatuses(CurrentRun), NoResponse)

\* The response to a status poll arrives.
PollResponse ==
  /\ mounted
  /\ \E response \in BagToSet(responses) :
       /\ response.type = "poll"
       /\ BecomesRun(pollPipelineStepStatusesThen(Receive(CurrentRun, response), response),
                     response)

\* cancelRun() is called (the handler of the button Cancel run, line 2040).
CancelRun(succeeded) ==
  /\ mounted
  /\ BagCardinality(responses) < MaxResponses
  /\ BecomesRun(cancelRun(CurrentRun, succeeded), NoResponse)

\* The response to the request that cancels a run arrives.
CancelRunResponse ==
  /\ mounted
  /\ \E response \in BagToSet(responses) :
       /\ response.type = "cancel"
       /\ BecomesRun(cancelRunThen(Receive(CurrentRun, response), response), response)

\* onSessionStateChange(working, running, session_details), line 1779; the
\* behaviours explored are those in which the session is started and stays.
SessionStateChange(running) ==
  /\ mounted
  /\ running # backendRunning
  /\ BecomesRun([CurrentRun EXCEPT !.backendRunning = running], NoResponse)

\* The backend: a pending run is started, a started run ends with status.
RunProgress(run, status) ==
  /\ mounted
  /\ run \in DOMAIN runs
  /\ \/ runs[run] = "PENDING" /\ status = "STARTED"
     \/ runs[run] = "STARTED" /\ status = "SUCCESS"
  /\ BecomesRun([CurrentRun EXCEPT !.runs[run] = status], NoResponse)

\* The view is closed.
ComponentWillUnmount ==
  /\ mounted
  /\ BecomesRun(componentWillUnmount(CurrentRun), NoResponse)

\* The constructed view; the backend has no run of the pipeline or one, which
\* is under way or has failed and which fetchActivePipelineRuns will find.
InitRun ==
  /\ steps = <<>>
  /\ initializedPipeline = FALSE
  /\ uuidCount = 0
  /\ connections = <<>>
  /\ newConnection = NoConnection
  /\ selectedConnection = NoConnection
  /\ openedStep = Undefined
  /\ selectedSteps = <<>>
  /\ mouseDown = FALSE
  /\ selectedItem = Undefined
  /\ unsavedChanges = FALSE
  /\ saveRequests = <<>>
  /\ continued = 0
  /\ readOnly = FALSE
  /\ selectTimers = <<>>
  /\ uncaught = 0
  /\ last = [op |-> "constructor", source |-> Undefined, target |-> Undefined,
             thrown |-> FALSE, alert |-> "none", cycles |-> FALSE]
  /\ pipelineRunning = FALSE
  /\ waitingOnCancel = FALSE
  /\ runUUID = Undefined
  /\ backendRunning = FALSE
  /\ pipelineStepStatusPollingInterval = Undefined
  /\ intervals = {}
  /\ runs \in {<<>>} \cup {[run \in {EarlierRun} |-> status] : status \in {"STARTED", "FAILURE"}}
  /\ responses = SetToBag({Response("runs", IF runs = <<>> THEN Undefined ELSE EarlierRun,
                                    "none")})
  /\ mounted = TRUE
  /\ handled = NoResponse

NextRun ==
  \/ FetchActivePipelineRunsResponse
  \/ \E accepted \in BOOLEAN : RunStepUUIDs(accepted)
  \/ RunStepUUIDsResponse
  \/ IntervalFires
  \/ PollResponse
  \/ \E succeeded \in BOOLEAN : CancelRun(succeeded)
  \/ CancelRunResponse
  \/ \E running \in {TRUE} : SessionStateChange(running)
  \/ \E run \in 1..MaxRuns, status \in {"STARTED", "SUCCESS"} :
       RunProgress(run, status)
  \/ ComponentWillUnmount

SpecRun == InitRun /\ [][NextRun]_vars

\* The runs of a view that found no earlier run, when the backend answers:
\* every response arrives, the timers fire and the runs go on to their end.
InitRunFair ==
  /\ InitRun
  /\ runs = <<>>

FairRun ==
  /\ WF_vars(FetchActivePipelineRunsResponse)
  /\ SF_vars(RunStepUUIDsResponse)
  /\ SF_vars(IntervalFires)
  /\ SF_vars(PollResponse)
  /\ SF_vars(CancelRunResponse)
  /\ WF_vars(\E run \in 1..MaxRuns, status \in {"STARTED", "SUCCESS"} :
               RunProgress(run, status))

SpecRunFair == InitRunFair /\ [][NextRun]_vars /\ FairRun

----------------------------------------------------------------------------
\* Running the steps of a document under edit: the file of the opened step is
\* changed in its details, steps are dragged, and the selected steps are run
\* through saveBeforeAction.

\* getPipelineJSON(): the document with the steps as they are in the state.
getPipelineJSON(m) == [steps |-> m.steps]

\* stepNameUpdate(pipelineStepUUID, title, file_path), lines 1196-1200: the
\* write to a step that is not in steps throws.
stepNameUpdate(m, pipelineStepUUID, file_path) ==
  IF pipelineStepUUID \notin DOMAIN m.steps THEN Throw(m)
  ELSE [m EXCEPT !.steps[pipelineStepUUID].file_path = file_path]

\* The details of the opened step report a new file path (onNameUpdate).
StepNameUpdate(u, file_path) ==
  /\ initializedPipeline /\ ~mouseDown
  /\ openedStep = u
  /\ LET m == stepNameUpdate(Current, u, file_path)
     IN Becomes(m) /\ last' = Ran("stepNameUpdate", Undefined, u, m)
  /\ UNCHANGED <<uuidCount, mouseDown>>

\* runSelectedSteps() and onRunIncoming(), lines 1551-1560: runStepUUIDs is the
\* action of saveBeforeAction; it runs at once when nothing is unsaved.  The
\* buttons are rendered while steps are selected and no pipeline is running.
RunSelectedSteps(accepted) ==
  /\ mounted /\ initializedPipeline /\ ~mouseDown
  /\ selectedSteps # <<>> /\ ~pipelineRunning
  /\ Len(saveRequests) < MaxRequests
  /\ continued < MaxContinued
  /\ BagCardinality(responses) < MaxResponses
  /\ accepted => NewRun(runs) <= MaxRuns
  /\ LET m == saveBeforeAction(Current)
         w == IF m.continued > continued
              THEN runStepUUIDs(CurrentRun, accepted) ELSE CurrentRun
     IN /\ BecomesEditor(m)
        /\ BecomesRunning(w, NoResponse)
        /\ last' = Ran("runSelectedSteps", Undefined, Undefined, m)
  /\ UNCHANGED <<uuidCount, mouseDown>>

\* The response to the oldest save request, whose continuation is
\* runStepUUIDs (lines 412-416 and 1552-1554).
SaveResponseRun(succeeded, accepted) ==
  /\ mounted
  /\ saveRequests # <<>>
  /\ continued < MaxContinued
  /\ BagCardinality(responses) < MaxResponses
  /\ accepted => NewRun(runs) <= MaxRuns
  /\ LET m == [Current EXCEPT
                 !.saveRequests = Tail(@),
                 !.continued = IF succeeded /\ Head(saveRequests).callback
                               THEN @ + 1 ELSE @]
         w == IF m.continued > continued
              THEN runStepUUIDs(CurrentRun, accepted) ELSE CurrentRun
     IN /\ BecomesEditor(m)
        /\ BecomesRunning(w, NoResponse)
        /\ last' = Ran("saveResponse", Undefined, Undefined, m)
  /\ UNCHANGED <<uuidCount, mouseDown>>

\* Steps of the documents whose steps are run.
MaxSubmitSteps == 2

\* A loaded document that is valid.
InitSubmit ==
  /\ InitValidate
  /\ uuidCount <= MaxSubmitSteps
  /\ validatePipelineJSON(encodeJSON([steps |-> steps])).valid

NextSubmit ==
  \/ FetchActivePipelineRunsResponse
  \/ \E running \in {TRUE} : SessionStateChange(running)
  \/ \E u \in UUIDs : ClickStep(u)
  \/ \E u \in UUIDs, file_path \in FilePaths : StepNameUpdate(u, file_path)
  \/ \E u \in UUIDs : DragStep(u)
  \/ \E accepted \in BOOLEAN : RunSelectedSteps(accepted)
  \/ \E succeeded, accepted \in BOOLEAN : SaveResponseRun(succeeded, accepted)
  \/ RunStepUUIDsResponse

SpecSubmit == InitSubmit /\ [][NextSubmit]_vars

----------------------------------------------------------------------------
\* The deferred selectStep: onClickStepHandler calls selectStep through
\* setTimeout, so other handlers may run between the click and the selection.

\* Deferred calls that wait at one time.
MaxTimers == 2

\* onClickStepHandler(stepUUID), lines 1188-1194, with the mouseup of the click.
onClickStepHandler(m, stepUUID) ==
  [mouseupElsewhere(m) EXCEPT !.selectTimers = Append(@, stepUUID)]

\* A click on a step without Ctrl: the selectStep is scheduled.
OnClickStep(u) ==
  /\ initializedPipeline /\ ~mouseDown
  /\ u \in DOMAIN steps
  /\ Len(selectTimers) < MaxTimers
  /\ LET m == onClickStepHandler(Current, u)
     IN Becomes(m) /\ last' = Ran("other", Undefined, Undefined, m)
  /\ UNCHANGED <<uuidCount, mouseDown>>

\* The timer of the oldest deferred selectStep fires.  The setState of
\* selectStep runs outside an event handler of React, so the render is part
\* of the call: a render that throws ends the callback in an uncaught
\* exception after line 1180 has assigned this.state.openedStep.
SelectStepTimer ==
  /\ selectTimers # <<>>
  /\ Head(selectTimers) # Undefined
  /\ LET u == Head(selectTimers)
         selected == selectStep([Current EXCEPT !.selectTimers = Tail(@)], u)
         m == IF renderThrows(selected) THEN Throw(selected) ELSE selected
     IN Becomes(m) /\ last' = Ran("selectStep", Undefined, u, m)
  /\ UNCHANGED <<uuidCount, mouseDown>>

\* The editor with clicks whose selection is deferred, and deletions.
NextSelect ==
  \/ \E n \in 0..MaxSteps : FetchPipelineResponse(n)
  \/ NewStep
  \/ \E u \in UUIDs : OnClickStep(u)
  \/ SelectStepTimer
  \/ KeyDownDelete
  \/ KeyUpEscape
  \/ DetailsDelete

SpecSelect == Init /\ [][NextSelect]_vars

----------------------------------------------------------------------------
\* Click or drag: the press on a step, the mousemove events and the release,
\* with the calls that the mouseup handler defers as steps of their own.

\* mousemove events counted after one press.
MaxMoves == 4

\* The mouseup handlers when the button was held on a step, without Ctrl
\* (lines 845-943, then the handler of the edit listeners): on a click onClick
\* defers selectStep, and the reset of this.selectedItem is deferred by 1 ms.
mouseupStepHandlers(m) ==
  IF m.selectedItem \notin DOMAIN m.steps THEN Throw(m)
  ELSE LET stepDragged == m.steps[m.selectedItem].meta_data["_dragged"]
           reset == [m EXCEPT !.steps[m.selectedItem].meta_data =
                                [@ EXCEPT !["_dragged"] = FALSE, !["_drag_count"] = 0]]
           shown == IF Len(reset.selectedSteps) > 1 /\ ~stepDragged
                    THEN closeDetailsView(reset) ELSE reset
           clicked == IF stepDragged THEN shown
                      ELSE [shown EXCEPT !.selectTimers = Append(@, m.selectedItem)]
       IN mouseupElsewhere([clicked EXCEPT !.selectTimers = Append(@, Undefined)])

\* The button is held on a step, and since the press nothing but mousemove
\* events were handled; Moves is their number.
Pressing == last.op \in {"mousedownStep", "mousemoveStep"}
Moves == IF last.op = "mousemoveStep" THEN last.source ELSE 0

\* The mouse button is pressed on step u.
PressStep(u) ==
  /\ initializedPipeline /\ ~mouseDown
  /\ selectedItem = Undefined
  /\ u \in DOMAIN steps
  /\ LET m == mousedownStep(Current, u)
     IN Becomes(m) /\ last' = Ran("mousedownStep", 0, u, m)
  /\ UNCHANGED <<uuidCount, mouseDown>>

\* A mousemove event over the canvas: while the button is held, or right
\* after the release, before the deferred calls run.
MoveMouse ==
  /\ selectedItem # Undefined
  /\ Pressing \/ last.op = "mouseupStep"
  /\ Moves < MaxMoves
  /\ LET m == mousemoveStep(Current)
     IN Becomes(m)
        /\ last' = IF Pressing THEN Ran("mousemoveStep", Moves + 1, selectedItem, m)
                   ELSE Ran("mousemoveLate", 0, selectedItem, m)
  /\ UNCHANGED <<uuidCount, mouseDown>>

\* The button is released.
ReleaseStep ==
  /\ Pressing
  /\ Len(selectTimers) + 2 <= MaxTimers
  /\ LET m == mouseupStepHandlers(Current)
     IN Becomes(m) /\ last' = Ran("mouseupStep", Moves, selectedItem, m)
  /\ UNCHANGED <<uuidCount, mouseDown>>

\* The timer of the deferred reset fires (lines 935-942).
SelectedItemTimer ==
  /\ selectTimers # <<>>
  /\ Head(selectTimers) = Undefined
  /\ LET m == [Current EXCEPT !.selectTimers = Tail(@), !.selectedItem = Undefined]
     IN Becomes(m) /\ last' = Ran("other", Undefined, Undefined, m)
  /\ UNCHANGED <<uuidCount, mouseDown>>

NextClick ==
  \/ \E u \in UUIDs : PressStep(u)
  \/ MoveMouse
  \/ ReleaseStep
  \/ SelectStepTimer
  \/ SelectedItemTimer

\* A loaded document of steps without files.
InitClick ==
  /\ InitValidate
  /\ \A u \in DOMAIN steps : steps[u].file_path = NoFile

SpecClick == InitClick /\ [][NextClick]_vars

----------------------------------------------------------------------------
\* Read-only views: the view is constructed read-only or not, and the
\* handlers run where initializePipeline and render have put them.

\* The constructed view.
InitReadOnly ==
  /\ steps = <<>>
  /\ initializedPipeline = FALSE
  /\ uuidCount = 0
  /\ connections = <<>>
  /\ newConnection = NoConnection
  /\ selectedConnection = NoConnection
  /\ openedStep = Undefined
  /\ selectedSteps = <<>>
  /\ mouseDown = FALSE
  /\ selectedItem = Undefined
  /\ unsavedChanges = FALSE
  /\ saveRequests = <<>>
  /\ continued = 0
  /\ readOnly \in BOOLEAN
  /\ selectTimers = <<>>
  /\ uncaught = 0
  /\ NoRun
  /\ last = [op |-> "constructor", source |-> Undefined, target |-> Undefined,
             thrown |-> FALSE, alert |-> "none", cycles |-> FALSE]

\* Steps of the documents that the views load.
MaxReadOnlySteps == 2

\* The handlers of the navigation listeners run in every view, those of the
\* edit listeners where initializePipeline has registered them.  savePipeline
\* is called in any view.
ListenedMouseDownOutgoing(u) == editListeners(Current) /\ MouseDownOutgoing(u)
ListenedMouseUpOnIncoming(t) == editListeners(Current) /\ MouseUpOnIncoming(t)
ListenedDragStep(u) == editListeners(Current) /\ DragStep(u)
ListenedKeyDownDelete == editListeners(Current) /\ KeyDownDelete

NextReadOnly ==
  \/ \E n \in 1..MaxReadOnlySteps : FetchPipelineResponse(n)
  \/ \E u \in UUIDs : ClickStep(u)
  \/ \E u \in UUIDs : ListenedMouseDownOutgoing(u)
  \/ \E t \in UUIDs : ListenedMouseUpOnIncoming(t)
  \/ \E u \in UUIDs : ListenedDragStep(u)
  \/ ListenedKeyDownDelete
  \/ SavePipeline

SpecReadOnly == InitReadOnly /\ [][NextReadOnly]_vars

----------------------------------------------------------------------------
\* Properties

\* C1: acyclicity. In every reachable state no step reaches itself by
\* following incoming_connections.
C1_Acyclic == ~HasCycle(Edges(steps))

\* C2: cycle rejection. A connect attempt s -> t between steps that are not
\* yet connected, made when s is reached from t along the existing
\* connections, has the cycle check return true, raises the cycle alert, and
\* leaves every incoming_connections as it was.
C2_CycleRejected ==
  [][(/\ last'.op = "connect"
      /\ IndexOf(steps[last'.target].incoming_connections, last'.source) = 0
      /\ Reaches(Edges(steps), last'.target, last'.source))
       => /\ last'.cycles
          /\ last'.alert = "cycle"
          /\ incoming_connections(steps') = incoming_connections(steps)]_vars

C4_NoSelfLoop ==
  /\ \A X \in DOMAIN steps : IndexOf(steps[X].incoming_connections, X) = 0
  /\ (last.op = "connect" /\ last.source = last.target)
       => (last.alert # "none" \/ last.thrown)

\* C5: the cycle check has no effect on the connections. Whenever a connect
\* attempt runs willCreateCycle(s, t), the incoming_connections the call leaves
\* are those it found, whether it returns or throws.
C5_CycleCheckRollsBack ==
  [][(last'.op = "connect" /\ last'.alert # "already connected")
       => incoming_connections(
            willCreateCycle(steps, last'.source, last'.target).steps)
          = incoming_connections(steps)]_vars

\* C6: outgoing_connections agree with incoming_connections. For every step s
\* that carries outgoing_connections, t is in them exactly when s is in the
\* incoming_connections of t.
C6_OutgoingDerived ==
  \A s \in DOMAIN steps :
    steps[s].outgoing_defined =>
      \A t \in DOMAIN steps \cup Range(steps[s].outgoing_connections) :
        (t \in Range(steps[s].outgoing_connections))
          <=> (t \in DOMAIN steps /\ s \in Range(steps[t].incoming_connections))

\* C7: cascade delete. Deleting existing steps removes them from steps and
\* from every other step's incoming_connections, and leaves the other entries
\* and their order as they were.
C7_CascadeDelete ==
  [][ToDelete # {}
       => /\ DOMAIN steps' = (DOMAIN steps) \ ToDelete
          /\ \A k \in DOMAIN steps' :
               steps'[k].incoming_connections =
                 Without(steps[k].incoming_connections, ToDelete)]_vars

\* C8: referential integrity. Every uuid in a step's incoming_connections is
\* a key of steps.
C8_ReferentialIntegrity ==
  \A k \in DOMAIN steps : Range(steps[k].incoming_connections) \subseteq DOMAIN steps

\* C9: no partial mutation on failure. When a connect, a disconnect or a
\* deletion of steps raises an alert or throws, the keys of steps and every
\* incoming_connections are as before the operation.
C9_FailureLeavesGraph ==
  [][(/\ last'.op \in {"connect", "disconnect", "deleteStep", "deleteSelectedSteps"}
      /\ (last'.thrown \/ last'.alert # "none"))
       => incoming_connections(steps') = incoming_connections(steps)]_vars

\* C10: duplicate connections are rejected. A connect attempt s -> t made when
\* s is in the incoming_connections of t raises the alert that the steps are
\* already connected and leaves the steps as they were.
C10_DuplicateRejected ==
  [][(/\ last'.op = "connect"
      /\ IndexOf(steps[last'.target].incoming_connections, last'.source) # 0)
       => /\ last'.alert = "already connected"
          /\ ~last'.thrown
          /\ steps' = steps]_vars

\* A connect attempt between two connected steps has been made.
C10_Witness ==
  /\ last.op = "connect" /\ last.alert = "already connected"
  /\ IndexOf(steps[last.target].incoming_connections, last.source) # 0

\* The array arr holds no entry twice.
DuplicateFree(arr) == \A i, j \in 1..Len(arr) : i # j => arr[i] # arr[j]

\* C11: no duplicate entries. In every reachable state no step's
\* incoming_connections holds the same uuid twice, whatever connect and
\* disconnect attempts, cycle checks and deletions have run, returned or thrown.
C11_NoDuplicates ==
  \A k \in DOMAIN steps : DuplicateFree(steps[k].incoming_connections)

\* A connect attempt has run on a step that holds two incoming connections, one
\* of them from the source of the attempt.
C11_Witness ==
  /\ last.op = "connect" /\ last.target \in DOMAIN steps
  /\ Len(steps[last.target].incoming_connections) >= 2
  /\ IndexOf(steps[last.target].incoming_connections, last.source) # 0

\* C12: a successful connect appends. A connect attempt s -> t that ends
\* without an alert and without an exception leaves the incoming_connections of
\* t as they were, followed by s, and leaves the keys of steps and every other
\* step's incoming_connections as they were.
C12_ConnectAppends ==
  [][(last'.op = "connect" /\ ~last'.thrown /\ last'.alert = "none")
       => /\ DOMAIN steps' = DOMAIN steps
          /\ \A k \in DOMAIN steps :
               steps'[k].incoming_connections =
                 IF k = last'.target
                 THEN Append(steps[k].incoming_connections, last'.source)
                 ELSE steps[k].incoming_connections]_vars

\* A connect attempt has succeeded on a step that had an incoming connection
\* already: the source is the last of its entries.
C12_Witness ==
  /\ last.op = "connect" /\ ~last.thrown /\ last.alert = "none"
  /\ last.target \in DOMAIN steps
  /\ Len(steps[last.target].incoming_connections) >= 2
  /\ steps[last.target].incoming_connections[
       Len(steps[last.target].incoming_connections)] = last.source

\* C13: disconnect removes the entry or does nothing. A key-up of Delete with
\* the connection s -> t selected, t being a step, does not throw, leaves the
\* incoming_connections of t without s and otherwise as they were, and leaves
\* the keys of steps and every other incoming_connections as they were; this
\* holds for the key-ups that follow with s no longer an entry of t as well.
C13_DisconnectIdempotent ==
  [][(last'.op = "disconnect" /\ last'.target \in DOMAIN steps)
       => /\ ~last'.thrown
          /\ DOMAIN steps' = DOMAIN steps
          /\ \A k \in DOMAIN steps :
               steps'[k].incoming_connections =
                 IF k = last'.target
                 THEN Without(steps[k].incoming_connections, {last'.source})
                 ELSE steps[k].incoming_connections]_vars

\* A key-up of Delete has run for a connection that was not an entry any more:
\* it took an object from this.connections and no entry from the steps, while
\* the target of the connection holds other entries.
C13_Witness ==
  /\ last.op = "disconnect" /\ ~last.thrown
  /\ selectedConnection.kind = "detached"
  /\ Len(connections) < Cardinality(Edges(steps))
  /\ steps[last.target].incoming_connections # <<>>

\* C14: deleting a step that is not there changes nothing. A Delete key-down
\* whose first selected step is no key of steps (it was deleted by an earlier
\* key-down that threw before it cleared the selection) leaves the keys of
\* steps and every incoming_connections as they were.
C14_DeleteAbsent ==
  [][(/\ last'.op = "deleteSelectedSteps"
      /\ selectedSteps # <<>>
      /\ selectedSteps[1] \notin DOMAIN steps)
       => incoming_connections(steps') = incoming_connections(steps)]_vars

\* Two different steps of st have the same file, and the file is a notebook.
NotebookShared(st) ==
  \E a, b \in DOMAIN st :
    /\ a # b
    /\ st[a].file_path = st[b].file_path
    /\ st[a].file_path.extension = "ipynb"

\* C15: validatePipelineJSON on the encoded steps returns valid = false if and
\* only if two steps with different uuid have the same file_path and the file
\* is a notebook; the error then names two such steps, and a valid document
\* (steps that are not notebooks may share a file_path) has no error.
C15_ValidateNotebooks ==
  LET result == validatePipelineJSON(encodeJSON(Current))
  IN /\ result.valid <=> ~NotebookShared(steps)
     /\ result.valid => result.errors = <<>>
     /\ ~result.valid =>
          /\ Len(result.errors) = 1
          /\ LET a == result.errors[1][1]
                 b == result.errors[1][2]
             IN /\ a # b
                /\ steps[a].file_path = steps[b].file_path
                /\ steps[a].file_path.extension = "ipynb"

C15_Witness ==
  /\ last.op = "savePipeline"
  /\ last.alert = "validation"
  /\ NotebookShared(steps)
  /\ \E a \in DOMAIN steps : steps[a].file_path.extension # "ipynb"

\* C16: savePipeline, also when saveBeforeAction calls it, sends a save request
\* only when validatePipelineJSON on the encoded steps returns valid; when it
\* returns invalid no request is sent, unsavedChanges keeps its value and no
\* continuation is run.
C16_ValidationGatesSaving ==
  [][last'.op \in {"savePipeline", "saveBeforeAction"} =>
       LET valid == validatePipelineJSON(encodeJSON(Current)).valid
           saves == last'.op = "savePipeline" \/ unsavedChanges
       IN /\ saveRequests' # saveRequests =>
               /\ valid
               /\ saveRequests' =
                    Append(saveRequests,
                           [pipeline_json |-> encodeJSON(Current),
                            callback |-> last'.op = "saveBeforeAction"])
          /\ saves /\ ~valid =>
               /\ saveRequests' = saveRequests
               /\ unsavedChanges' = unsavedChanges
               /\ continued' = continued
               /\ last'.alert = "validation"]_vars

C16_Witness ==
  /\ last.op = "saveBeforeAction"
  /\ last.alert = "validation"
  /\ unsavedChanges
  /\ saveRequests = <<>>
  /\ continued = 0

\* C17: the document that savePipeline sends has exactly one entry per step of
\* this.state.steps, under the step's uuid; no key of a meta_data starts with
\* an underscore, no entry has outgoing_connections, and every
\* incoming_connections is the step's list, in its order.
C17_EncodedDocument ==
  [][last'.op = "savePipeline" /\ Len(saveRequests') > Len(saveRequests) =>
       LET doc == saveRequests'[Len(saveRequests')].pipeline_json
       IN /\ DOMAIN doc.steps = DOMAIN steps
          /\ \A key \in DOMAIN steps :
               /\ \A k \in DOMAIN doc.steps[key].meta_data : FirstChar(k) # "_"
               /\ ~doc.steps[key].outgoing_defined
               /\ doc.steps[key].outgoing_connections = <<>>
               /\ doc.steps[key].incoming_connections = steps[key].incoming_connections
               /\ doc.steps[key].file_path = steps[key].file_path]_vars

C17_Witness ==
  /\ last.op = "savePipeline"
  /\ saveRequests # <<>>
  /\ Head(saveRequests).pipeline_json = encodeJSON(Current)
  /\ InDrag(steps) # {}
  /\ \E key \in DOMAIN steps :
       steps[key].outgoing_defined /\ steps[key].outgoing_connections # <<>>
  /\ \E key \in DOMAIN steps : Len(steps[key].incoming_connections) > 1

\* C18: decodeJSON of the document that encodeJSON makes of the steps yields
\* the same steps with the same incoming_connections, in the same order, and
\* with _drag_count 0 and _dragged false whatever they were when the document
\* was encoded.
C18_RoundTrip ==
  [][last'.op = "reopen" /\ Head(saveRequests).pipeline_json = encodeJSON(Current) =>
       /\ DOMAIN steps' = DOMAIN steps
       /\ incoming_connections(steps') = incoming_connections(steps)
       /\ \A key \in DOMAIN steps' :
            /\ {"_drag_count", "_dragged"} \subseteq DOMAIN steps'[key].meta_data
            /\ steps'[key].meta_data["_drag_count"] = 0
            /\ steps'[key].meta_data["_dragged"] = FALSE]_vars

C18_Witness ==
  /\ last.op = "reopen"
  /\ last.target # Undefined
  /\ InDrag(steps) = {}
  /\ \E key \in DOMAIN steps : Len(steps[key].incoming_connections) > 1

\* C19: when fetchPipelineAndInitialize has loaded a document, the keys of
\* this.state.steps are the keys of the document's steps, and every loaded
\* step has _drag_count 0 and _dragged false.
C19_LoadedSteps ==
  [][last'.op = "fetchPipelineAndInitialize" =>
       /\ DOMAIN steps' = (uuidCount + 1)..uuidCount'
       /\ \A key \in (uuidCount + 1)..uuidCount' :
            /\ steps'[key].meta_data["_drag_count"] = 0
            /\ steps'[key].meta_data["_dragged"] = FALSE]_vars

\* C20: newStep inserts exactly one step, under a uuid that was no key of steps,
\* with an empty incoming_connections; every step that was there is unchanged.
C20_NewStepFrame ==
  [][last'.op = "newStep" =>
       \E uuid \in UUIDs :
         /\ uuid \notin DOMAIN steps
         /\ DOMAIN steps' = DOMAIN steps \cup {uuid}
         /\ steps'[uuid].incoming_connections = <<>>
         /\ \A key \in DOMAIN steps : steps'[key] = steps[key]]_vars

C20_Witness ==
  /\ last.op = "newStep"
  /\ \E key \in DOMAIN steps : steps[key].incoming_connections # <<>>
  /\ \E key \in DOMAIN steps :
       /\ steps[key].incoming_connections = <<>>
       /\ \A other \in DOMAIN steps : IndexOf(steps[other].incoming_connections, key) = 0

\* Lines 588-595: the pairs <<whiteSet, greySet>> that the loop of
\* willCreateCycle finds at the start of its iterations and at its end.
RECURSIVE LoopStates(_, _, _)
LoopStates(st, whiteSet, greySet) ==
  IF whiteSet = {} THEN {<<whiteSet, greySet>>}
  ELSE LET r == dfsWithSets(st, FirstOf(whiteSet), whiteSet, greySet)
       IN {<<whiteSet, greySet>>} \cup
          (IF r.whiteSet = whiteSet THEN {}
           ELSE LoopStates(st, r.whiteSet, r.greySet))

\* C21: the cycle check terminates. In every call that reaches the loop, each
\* iteration takes at least the step it starts from out of whiteSet, the loop
\* ends with whiteSet empty after at most one iteration per step, and when no
\* cycle was found greySet is empty as well.
C21_CycleCheckTerminates ==
  [][last'.op = "willCreateCycle" /\ ~last'.thrown =>
       LET st == steps'
           final == WhileWhite(st, DOMAIN st, {}, FALSE)
           states == LoopStates(st, DOMAIN st, {})
       IN /\ \A ls \in states :
               ls[1] # {} =>
                 LET r == dfsWithSets(st, FirstOf(ls[1]), ls[1], ls[2])
                 IN r.whiteSet \subseteq ls[1] \ {FirstOf(ls[1])}
          /\ Cardinality(states) <= Cardinality(DOMAIN st) + 1
          /\ final.whiteSet = {}
          /\ final.cycles = last'.cycles
          /\ ~final.cycles => final.greySet = {}]_vars

\* A check has returned false on three steps of which one has no connection,
\* so that the loop ran more than once.
C21_Witness ==
  /\ last.op = "willCreateCycle" /\ ~last.thrown /\ ~last.cycles
  /\ uuidCount = 3
  /\ Edges(steps) # {}
  /\ \E k \in DOMAIN steps :
       /\ steps[k].incoming_connections = <<>>
       /\ steps[k].outgoing_connections = <<>>
       /\ k \notin {last.source, last.target}
  /\ Cardinality(LoopStates(steps, DOMAIN steps, {})) > 2

\* C22: validatePipelineJSON stops at the first conflict: the errors it returns
\* are at most one, and valid is true exactly when there is none.
C22_ValidateStopsAtFirst ==
  LET result == validatePipelineJSON(encodeJSON(Current))
  IN /\ Len(result.errors) <= 1
     /\ result.valid <=> result.errors = <<>>

\* savePipeline has refused a document in which three steps share one notebook.
C22_Witness ==
  /\ last.op = "savePipeline"
  /\ last.alert = "validation"
  /\ Cardinality(DOMAIN steps) = 3
  /\ \A a, b \in DOMAIN steps : steps[a].file_path = steps[b].file_path
  /\ \A a \in DOMAIN steps : steps[a].file_path.extension = "ipynb"

\* The number of objects of conns that connect start to end.
Drawn(conns, start, end) ==
  Cardinality({i \in 1..Len(conns) :
                 conns[i].startNodeUUID = start /\ conns[i].endNodeUUID = end})

\* C23: while no connection is being dragged, this.connections holds exactly
\* one object (start, end) for every start in steps[end].incoming_connections
\* and no other object.
C23_ConnectionsDrawn ==
  newConnection.kind = "undefined" =>
    /\ \A i \in 1..Len(connections) :
         <<connections[i].startNodeUUID, connections[i].endNodeUUID>> \in Edges(steps)
    /\ \A e \in Edges(steps) : Drawn(connections, e[1], e[2]) = 1

\* C24: a poll response sets pipelineRunning to false or stops a polling timer
\* only when it is the response of the run this.state.runUUID and reports a
\* terminal status, and a poll response of another run changes neither
\* pipelineRunning nor waitingOnCancel nor the timers.
C24_StalePollIgnored ==
  [][handled'.type = "poll" =>
       /\ ((pipelineRunning /\ ~pipelineRunning') \/ intervals' # intervals) =>
            /\ handled'.run = runUUID
            /\ handled'.result \in Terminal
       /\ handled'.run # runUUID =>
            /\ pipelineRunning' = pipelineRunning
            /\ waitingOnCancel' = waitingOnCancel
            /\ intervals' = intervals]_vars

\* A request that starts a run is sent in the step.
RunRequestSent ==
  \E response \in BagToSet(responses') :
    /\ response.type = "run"
    /\ CopiesIn(response, responses') > CopiesIn(response, responses)

\* C25: a request that starts a run is sent only when backend.running is true
\* and pipelineRunning is false, pipelineRunning is true once it is sent, and
\* it is not sent while a run that the view started is pending or started.
C25_RunMutualExclusion ==
  [][RunRequestSent =>
       /\ backendRunning
       /\ ~pipelineRunning
       /\ pipelineRunning'
       /\ \A run \in (DOMAIN runs) \ {EarlierRun} : runs[run] \in Terminal]_vars

\* C26: at most one polling timer is active, the one whose handle the view
\* holds, and none is active once componentWillUnmount has run.
C26_OnePollingTimer ==
  /\ Cardinality(intervals) <= 1
  /\ intervals \subseteq {pipelineStepStatusPollingInterval}
  /\ ~mounted => intervals = {}

\* C27: when the backend answers, the view does not stay in the running state:
\* whenever pipelineRunning is true it becomes false later on, and so does
\* waitingOnCancel.
C27_RunsEnd ==
  /\ (mounted /\ pipelineRunning) ~> (~mounted \/ ~pipelineRunning)
  /\ (mounted /\ waitingOnCancel) ~> (~mounted \/ ~waitingOnCancel)

\* C28: waitingOnCancel is true only while pipelineRunning is true.
C28_WaitingOnlyWhileRunning == waitingOnCancel => pipelineRunning

\* C29: every operation of the editor after which the serialized form of the
\* graph differs (a step added or deleted, steps connected or disconnected)
\* leaves unsavedChanges = true.
C29_EditsMarkUnsaved ==
  [][/\ last'.op # "fetchPipelineAndInitialize"
     /\ encodeJSON([steps |-> steps']) # encodeJSON([steps |-> steps])
     => unsavedChanges']_vars

\* C30: unsavedChanges becomes false only in the step that handles the
\* response to a save request, and stays true while a save request is in flight.
C30_SavedOnceAcknowledged ==
  [][unsavedChanges /\ ~unsavedChanges'
     => /\ last'.op = "saveResponse"
        /\ saveRequests' = Tail(saveRequests)]_vars

\* C31: the pipeline definition that is sent with a request to start a run
\* passes the validation: no two notebook steps of it share a file.
C31_ValidSubmitted ==
  [][RunRequestSent
     => validatePipelineJSON(getPipelineJSON([steps |-> steps'])).valid]_vars

\* C32: the opened step, when defined, and every selected step is a key of
\* steps.
C32_SelectionExists ==
  /\ openedStep # Undefined => openedStep \in DOMAIN steps
  /\ \A x \in 1..Len(selectedSteps) : selectedSteps[x] \in DOMAIN steps

\* C33: _drag_count stays in 0..2; a press on a step, fewer than
\* DRAG_CLICK_SENSITIVITY mousemove events and the release are a click (onClick
\* is called and defers selectStep), a release after more mousemove events is
\* none; and the release leaves the step with _dragged = false, _drag_count = 0.
C33_ClickOrDrag ==
  [][/\ \A u \in DOMAIN steps' :
          steps'[u].meta_data["_drag_count"] \in 0..(DRAG_CLICK_SENSITIVITY - 1)
     /\ last'.op = "mouseupStep" /\ ~last'.thrown =>
          /\ (Moves < DRAG_CLICK_SENSITIVITY) <=>
               (\E x \in 1..Len(selectTimers') : selectTimers'[x] = selectedItem)
          /\ ~steps'[selectedItem].meta_data["_dragged"]
          /\ steps'[selectedItem].meta_data["_drag_count"] = 0]_vars

====
